---- MODULE Spec2Model ----
(***************************************************************************)
(* Model of src/src/s3_batch_object_cleaner.py: the parallel deletion of   *)
(* the objects of a list of S3 buckets whose key contains a symbol.        *)
(*                                                                         *)
(* One bucket task (delete_objects_from_bucket) runs per bucket on a       *)
(* ThreadPoolExecutor of max_workers threads; process_all_buckets collects *)
(* the futures in submission order and sums the (found, deleted) pairs.    *)
(* The storage service is the environment: a listing call yields the next  *)
(* page or fails, a delete call answers with the keys it deleted and the   *)
(* keys it could not delete, or fails.                                     *)
(***************************************************************************)
EXTENDS Integers, Sequences, FiniteSets, TLC

\* ------------------------------------------------------------------ bounds
\* Keys per delete call: 1000 in the source (lines 81-82), scaled down.
DeleteBatchLimit == 2
\* Length of BUCKETS: 11 in the source (lines 25-37), scaled down.
MaxBuckets == 2
\* MAX_CONCURRENCY: 8 in the source (line 20), scaled down.
MaxConcurrency == 2
\* Objects held by one bucket.
MaxObjects == 3

\* --------------------------------------------------------------- constants
SYMBOL == <<"D", "P", "Z">>

\* The keys the buckets of the model hold: "DPZ/1", "AAPL/1", "DPZ/2",
\* "x/DPZ", "MSFT", "DPZ/3" as sequences of characters.
ObjectKeys ==
    << <<"D", "P", "Z", "/", "1">>,
       <<"A", "A", "P", "L", "/", "1">>,
       <<"D", "P", "Z", "/", "2">>,
       <<"x", "/", "D", "P", "Z">>,
       <<"M", "S", "F", "T">>,
       <<"D", "P", "Z", "/", "3">> >>

\* The contents a bucket may have, in listing order: nothing, one key that
\* does not contain the symbol, or the first MaxObjects keys of ObjectKeys.
BucketContents ==
    { <<>>, SubSeq(ObjectKeys, 2, 2), SubSeq(ObjectKeys, 1, MaxObjects) }

VARIABLES
    buckets,        \* BUCKETS: bucket b holds the key sequence buckets[b]
    max_workers,    \* MAX_CONCURRENCY as given to ThreadPoolExecutor
    max_keys,       \* MAX_KEYS as given to paginate
    dry_run,        \* DRY_RUN
    all_symbols,    \* args.all_symbols
    pc,             \* position of main / process_all_buckets
    next_future,    \* index of the future the collection loop waits for
    total_found,    \* process_all_buckets' total_found
    total_deleted,  \* process_all_buckets' total_deleted
    task,           \* per bucket: the state of its delete_objects_from_bucket
    calls,          \* per bucket: the delete_objects calls issued (history)
    confirmed       \* per bucket: keys the service answered as Deleted (history)

vars == <<buckets, max_workers, max_keys, dry_run, all_symbols, pc, next_future,
          total_found, total_deleted, task, calls, confirmed>>

config == <<buckets, max_workers, max_keys, dry_run, all_symbols>>

\* ----------------------------------------------------------------- helpers
Min(a, b) == IF a < b THEN a ELSE b

\* Python's `symbol in key` on strings.
Contains(key, sym) ==
    \E i \in 0..(Len(key) - Len(sym)) : SubSeq(key, i + 1, i + Len(sym)) = sym

\* main: symbol = None if deleting_everything else SYMBOL (None and "" are
\* both falsy; None is the empty sequence here).
Symbol == IF all_symbols THEN <<>> ELSE SYMBOL

\* Line 67: all_symbols or (symbol and symbol in key).
Matches(key) == all_symbols \/ (Symbol # <<>> /\ Contains(key, Symbol))

\* list_objects_v2 through the paginator: the bucket's keys in pages of at
\* most page_size keys; an empty bucket yields one page without 'Contents'.
RECURSIVE Paginate(_, _)
Paginate(keys, page_size) ==
    IF Len(keys) <= page_size THEN << keys >>
    ELSE << SubSeq(keys, 1, page_size) >>
         \o Paginate(SubSeq(keys, page_size + 1, Len(keys)), page_size)

PagesOf(b) == Paginate(buckets[b], max_keys)

\* Lines 64-70: the keys of a page that match, in page order.
ObjectsToDelete(contents) == SelectSeq(contents, LAMBDA key : Matches(key))

BatchNoSlice(objects_to_delete, i) ==
    SubSeq(objects_to_delete, i + 1, Len(objects_to_delete))

\* Line 82: objects_to_delete[i:i + 1000].
Batch(objects_to_delete, i) ==
    SubSeq(objects_to_delete, i + 1, Min(i + DeleteBatchLimit, Len(objects_to_delete)))

NextOffsetSkipping(i) == i + DeleteBatchLimit + 1

\* Line 81: range(0, len(objects_to_delete), 1000).
NextOffset(i) == i + DeleteBatchLimit

\* The answers of delete_objects to a batch: every key is either in
\* 'Deleted' or in 'Errors'; an answer refuses no key or one key.
Responses(batch) ==
    { [Deleted |-> SelectSeq(batch, LAMBDA key : key \notin E),
       Errors  |-> SelectSeq(batch, LAMBDA key : key \in E)] :
      E \in {{}, {batch[Len(batch)]}} }

DeletedCountOfBatch(response) == Len(response.Deleted) + Len(response.Errors)

\* Line 87: len(response.get('Deleted', [])).
DeletedCount(response) == Len(response.Deleted)

ShouldDeleteIgnoringDryRun(objects_to_delete) == objects_to_delete # <<>>

\* Line 80: not dry_run and objects_to_delete.
ShouldDelete(objects_to_delete) == ~dry_run /\ objects_to_delete # <<>>

Bucket == 1..Len(buckets)

NewTask ==
    [st |-> "queued", at |-> "list", page |-> 0, objects_to_delete |-> <<>>,
     i |-> 0, total_found |-> 0, total_deleted |-> 0, ret |-> <<0, 0>>,
     err |-> "none"]

\* A task that has returned or raised: its locals are gone, its outcome
\* stays with the future.
Ended(st, ret, err) == [NewTask EXCEPT !.st = st, !.ret = ret, !.err = err]

Running == { b \in DOMAIN task : task[b].st = "running" }
Finished == { b \in DOMAIN task : task[b].st \in {"returned", "raised"} }

\* ---------------------------------------------------------------- initial
ConfigInit ==
    /\ buckets \in UNION { [1..n -> BucketContents] : n \in 0..MaxBuckets }
    /\ max_workers \in {0, 1, MaxConcurrency}
    /\ max_keys \in {DeleteBatchLimit, DeleteBatchLimit + 1}
    /\ dry_run \in BOOLEAN
    /\ all_symbols \in BOOLEAN
    /\ pc = "main"
    /\ next_future = 1
    /\ total_found = 0
    /\ total_deleted = 0
    /\ task = << >>
    /\ calls = << >>
    /\ confirmed = << >>

\* The configurations the run is specified for: a non-empty bucket list and
\* a positive concurrency limit.
Init ==
    /\ ConfigInit
    /\ Len(buckets) >= 1
    /\ max_workers >= 1

\* ------------------------------------------------------------------- main
Submitted ==
    /\ task' = [b \in Bucket |-> NewTask]
    /\ calls' = [b \in Bucket |-> <<>>]
    /\ confirmed' = [b \in Bucket |-> 0]

\* Lines 145-153: without DRY_RUN the run asks for confirmation; any answer
\* but 'y' cancels it.
Cancel ==
    /\ pc = "main"
    /\ ~dry_run
    /\ pc' = "cancelled"
    /\ UNCHANGED <<config, next_future, total_found, total_deleted, task, calls, confirmed>>

\* Lines 145-166 and 110-124: the run is confirmed (or is a dry run),
\* process_all_buckets creates the executor and submits one task per bucket.
StartRun ==
    /\ pc = "main"
    /\ max_workers > 0
    /\ pc' = "collect"
    /\ Submitted
    /\ UNCHANGED <<config, next_future, total_found, total_deleted>>

\* Line 113: ThreadPoolExecutor(max_workers=n) raises ValueError for n <= 0;
\* nothing catches it.
ExecutorValueError ==
    /\ pc = "main"
    /\ max_workers <= 0
    /\ pc' = "error"
    /\ UNCHANGED <<config, next_future, total_found, total_deleted, task, calls, confirmed>>

\* ------------------------------------------------------- the executor pool
HasIdleWorkerUncapped == TRUE

\* ThreadPoolExecutor runs at most max_workers work items at a time.
HasIdleWorker == Cardinality(Running) < max_workers

\* A worker thread takes the oldest queued work item and enters
\* delete_objects_from_bucket: lines 44-54 (session, client, paginator).
StartTask(b) ==
    /\ pc = "collect"
    /\ b \in DOMAIN task
    /\ task[b].st = "queued"
    /\ \A a \in 1..(b - 1) : task[a].st # "queued"
    /\ HasIdleWorker
    /\ task' = [task EXCEPT ![b].st = "running"]
    /\ UNCHANGED <<config, pc, next_future, total_found, total_deleted, calls, confirmed>>

\* Line 45: boto3.Session(profile_name=...) raises ProfileNotFound, outside
\* the try block.
StartTaskRaises(b) ==
    /\ pc = "collect"
    /\ b \in DOMAIN task
    /\ task[b].st = "queued"
    /\ \A a \in 1..(b - 1) : task[a].st # "queued"
    /\ HasIdleWorker
    /\ task' = [task EXCEPT ![b] = Ended("raised", <<0, 0>>, "ProfileNotFound")]
    /\ UNCHANGED <<config, pc, next_future, total_found, total_deleted, calls, confirmed>>

\* -------------------------------------------- delete_objects_from_bucket
\* Lines 58 and 104: after the last page the paginator is exhausted without
\* another call, and the function returns (total_found, total_deleted).
Continue(b, t) ==
    IF t.at = "list" /\ t.page = Len(PagesOf(b))
    THEN Ended("returned", <<t.total_found, t.total_deleted>>, "none")
    ELSE t

\* Lines 58-80 and 97-98: the next page arrives and is filtered.
ListPage(b) ==
    /\ b \in DOMAIN task
    /\ task[b].st = "running"
    /\ task[b].at = "list"
    /\ task[b].page < Len(PagesOf(b))
    /\ LET contents == PagesOf(b)[task[b].page + 1]
           matching == ObjectsToDelete(contents)
       IN  task' = [task EXCEPT ![b] = Continue(b, [@ EXCEPT
                !.page = @ + 1,
                !.objects_to_delete = IF contents = <<>> THEN @ ELSE matching,
                !.total_found = @ + Len(matching),
                !.i = 0,
                !.at = IF contents # <<>> /\ ShouldDelete(matching)
                       THEN "delete" ELSE "list"])]
    /\ UNCHANGED <<config, pc, next_future, total_found, total_deleted, calls, confirmed>>

\* Lines 81-88: one delete_objects call of the current page's batches.
DeleteBatch(b) ==
    /\ b \in DOMAIN task
    /\ task[b].st = "running"
    /\ task[b].at = "delete"
    /\ LET batch == Batch(task[b].objects_to_delete, task[b].i)
       IN  \E response \in Responses(batch) :
            /\ task' = [task EXCEPT ![b] = Continue(b, [@ EXCEPT
                    !.total_deleted = @ + DeletedCount(response),
                    !.i = NextOffset(@),
                    !.at = IF NextOffset(task[b].i) < Len(task[b].objects_to_delete)
                           THEN "delete" ELSE "list"])]
            /\ calls' = [calls EXCEPT
                    ![b] = Append(@, [page |-> task[b].page, keys |-> batch])]
            /\ confirmed' = [confirmed EXCEPT ![b] = @ + Len(response.Deleted)]
    /\ UNCHANGED <<config, pc, next_future, total_found, total_deleted>>

\* The exceptions a storage call raises: botocore's ClientError (an error
\* answer of the service: AccessDenied, NoSuchBucket, SlowDown) or a
\* BotoCoreError (EndpointConnectionError, ReadTimeoutError: no answer).
StorageErrors == {"ClientError", "BotoCoreError"}

\* Lines 100-102: except ClientError returns (0, 0); any other exception
\* leaves the function.
Fails(b, e) ==
    task' = [task EXCEPT
        ![b] = Ended(IF e = "ClientError" THEN "returned" ELSE "raised", <<0, 0>>, e)]

\* Line 58: the listing call of the next page fails.
ListFails(b) ==
    /\ b \in DOMAIN task
    /\ task[b].st = "running"
    /\ task[b].at = "list"
    /\ task[b].page < Len(PagesOf(b))
    /\ \E e \in StorageErrors : Fails(b, e)
    /\ UNCHANGED <<config, pc, next_future, total_found, total_deleted, calls, confirmed>>

\* Line 83: the delete_objects call fails as a whole.
DeleteFails(b) ==
    /\ b \in DOMAIN task
    /\ task[b].st = "running"
    /\ task[b].at = "delete"
    /\ \E e \in StorageErrors : Fails(b, e)
    /\ UNCHANGED <<config, pc, next_future, total_found, total_deleted, calls, confirmed>>

\* ---------------------------------------------------- process_all_buckets
AddFoundOverwriting(total, ret) == ret[1]

\* Line 130: total_found += found.
AddFound(total, ret) == total + ret[1]

AddDeletedFromFound(total, ret) == total + ret[1]

\* Line 131: total_deleted += deleted.
AddDeleted(total, ret) == total + ret[2]

CollectNoCatch ==
    /\ pc = "collect"
    /\ next_future \in DOMAIN task
    /\ task[next_future].st \in {"returned", "raised"}
    /\ IF task[next_future].st = "returned"
       THEN /\ total_found' = AddFound(total_found, task[next_future].ret)
            /\ total_deleted' = AddDeleted(total_deleted, task[next_future].ret)
            /\ next_future' = next_future + 1
            /\ pc' = pc
       ELSE /\ pc' = "error"
            /\ UNCHANGED <<total_found, total_deleted, next_future>>
    /\ UNCHANGED <<config, task, calls, confirmed>>

\* Lines 126-133: future.result() of the next future, in submission order.
Collect ==
    /\ pc = "collect"
    /\ next_future \in DOMAIN task
    /\ task[next_future].st \in {"returned", "raised"}
    /\ IF task[next_future].st = "returned"
       THEN /\ total_found' = AddFound(total_found, task[next_future].ret)
            /\ total_deleted' = AddDeleted(total_deleted, task[next_future].ret)
       ELSE UNCHANGED <<total_found, total_deleted>>
    /\ next_future' = next_future + 1
    /\ UNCHANGED <<config, pc, task, calls, confirmed>>

\* Lines 135 and 166-175: every future is collected, the executor shuts
\* down, the totals are returned and main logs the summary.
Summary ==
    /\ pc = "collect"
    /\ next_future = Len(buckets) + 1
    /\ pc' = "done"
    /\ UNCHANGED <<config, next_future, total_found, total_deleted, task, calls, confirmed>>

\* ------------------------------------------------------- specifications
TaskStep(b) ==
    \/ StartTask(b)
    \/ StartTaskRaises(b)
    \/ ListPage(b)
    \/ ListFails(b)
    \/ DeleteBatch(b)
    \/ DeleteFails(b)

Next ==
    \/ Cancel
    \/ StartRun
    \/ \E b \in 1..MaxBuckets : TaskStep(b)
    \/ Collect
    \/ Summary

Spec == Init /\ [][Next]_vars

\* The threads keep being scheduled and every storage call ends (with an
\* answer or an error): the run does not stop while a step is possible.
\* Only the operator's confirmation is not forced.
Progress ==
    \/ StartRun
    \/ \E b \in 1..MaxBuckets : TaskStep(b)
    \/ Collect
    \/ Summary

Fairness == WF_vars(Progress)

FairSpec == Spec /\ Fairness

\* Any configuration, the invalid ones included.
ConfigNext == Next \/ ExecutorValueError

ConfigSpec == ConfigInit /\ [][ConfigNext]_vars

\* ------------------------------------------------------------ properties
CeilDiv(n, d) == (n + d - 1) \div d

RECURSIVE SumOver(_, _)
SumOver(f, n) == IF n = 0 THEN 0 ELSE f[n] + SumOver(f, n - 1)

RECURSIVE CallKeys(_)
CallKeys(cs) == IF cs = <<>> THEN <<>> ELSE Head(cs).keys \o CallKeys(Tail(cs))

\* The keys of bucket b that satisfy the predicate, in listing order.
Matched(b) == SelectSeq(buckets[b], LAMBDA key : Matches(key))

\* The delete calls per-page chunking needs for bucket b.
CallsPerPage(b) ==
    LET pages == PagesOf(b)
        need == [p \in 1..Len(pages) |->
                    CeilDiv(Len(ObjectsToDelete(pages[p])), DeleteBatchLimit)]
    IN  SumOver(need, Len(pages))

\* The task of bucket b returned from line 104, with no bucket-level error.
CleanReturn(b) == task[b].st = "returned" /\ task[b].err = "none"

\* No delete call of bucket b answered with a per-key error.
NoKeyErrors(b) == confirmed[b] = Len(CallKeys(calls[b]))

\* C1 as stated: without dry run and without API errors, a bucket with N
\* matched keys gets exactly ceil(N / limit) delete calls, and the calls
\* carry exactly the matched keys, each once.
C1_CallsAreCeilOfMatched ==
    \A b \in DOMAIN task :
        (~dry_run /\ CleanReturn(b) /\ NoKeyErrors(b)) =>
            /\ Len(calls[b]) = CeilDiv(Len(Matched(b)), DeleteBatchLimit)
            /\ CallKeys(calls[b]) = Matched(b)

\* C1 amended: the matched keys are chunked page by page, so the number of
\* delete calls is the sum over the listing pages of ceil(matches on the
\* page / limit), which is at least ceil(N / limit); the calls carry exactly
\* the matched keys, each once.
C1_CallsAreChunksOfEachPage ==
    \A b \in DOMAIN task :
        (~dry_run /\ CleanReturn(b)) =>
            /\ Len(calls[b]) = CallsPerPage(b)
            /\ Len(calls[b]) >= CeilDiv(Len(Matched(b)), DeleteBatchLimit)
            /\ CallKeys(calls[b]) = Matched(b)

C1_Witness ==
    \E b \in DOMAIN task :
        /\ ~dry_run /\ CleanReturn(b) /\ NoKeyErrors(b)
        /\ Len(calls[b]) > CeilDiv(Len(Matched(b)), DeleteBatchLimit)
        /\ \E c, d \in 1..Len(calls[b]) : calls[b][c].page # calls[b][d].page

\* C2 as stated: in a dry run no delete call is issued, every task returns
\* deleted = 0 and the found it returns is the number of matching keys.
C2_DryRunFoundAlwaysTrue ==
    dry_run =>
        \A b \in DOMAIN task :
            /\ calls[b] = <<>>
            /\ task[b].st = "returned" =>
                  /\ task[b].ret[2] = 0
                  /\ task[b].ret[1] = Len(Matched(b))

\* C2 amended: in a dry run no delete call is issued and nothing is
\* deleted, every task that returns returns deleted = 0, and a task that
\* returns without a listing error returns found = the number of matching
\* keys (after a listing error it returns found = 0).
C2_DryRunNoDelete ==
    dry_run =>
        /\ total_deleted = 0
        /\ \A b \in DOMAIN task :
            /\ calls[b] = <<>>
            /\ confirmed[b] = 0
            /\ task[b].st = "returned" => task[b].ret[2] = 0
            /\ CleanReturn(b) => task[b].ret[1] = Len(Matched(b))
            /\ (task[b].st = "returned" /\ ~CleanReturn(b)) => task[b].ret[1] = 0

C2_Witness ==
    /\ dry_run
    /\ \E b \in DOMAIN task : CleanReturn(b) /\ task[b].ret[1] >= 2
                              /\ Len(PagesOf(b)) >= 2

\* C3 as stated: whenever a listing or delete call of a bucket task fails,
\* the task returns (0, 0) and the error does not leave
\* delete_objects_from_bucket.
C3_FailureReturnsZero ==
    \A b \in DOMAIN task :
        task[b].err \in StorageErrors =>
            task[b].st = "returned" /\ task[b].ret = <<0, 0>>

\* What bucket b adds to the totals: its returned pair, or (0, 0) when its
\* task raised.
Contribution(b) == IF task[b].st = "returned" THEN task[b].ret ELSE <<0, 0>>

\* C4: the totals are the sum of one contribution per collected bucket,
\* (0, 0) for a task that raised; at the end every bucket is collected.
C4_TotalsAreSumOfResults ==
    /\ pc \in {"collect", "done"} =>
          /\ next_future \in 1..(Len(buckets) + 1)
          /\ total_found =
                SumOver([b \in DOMAIN task |-> Contribution(b)[1]], next_future - 1)
          /\ total_deleted =
                SumOver([b \in DOMAIN task |-> Contribution(b)[2]], next_future - 1)
    /\ pc = "done" => next_future = Len(buckets) + 1

C4_Witness ==
    /\ pc = "done"
    /\ Len(buckets) >= 2
    /\ \E a, b \in DOMAIN task :
          /\ task[a].st = "raised"
          /\ CleanReturn(b) /\ task[b].ret[1] > 0 /\ task[b].ret[2] > 0
          /\ total_found = task[b].ret[1]

\* C5: a task that finishes without a bucket-level error returns as deleted
\* the number of keys the responses listed as deleted; a per-key error is
\* not counted in deleted, is counted in found, and the batches and pages
\* after it are still processed.
C5_DeletedIsConfirmed ==
    \A b \in DOMAIN task :
        CleanReturn(b) =>
            /\ task[b].ret[2] = confirmed[b]
            /\ task[b].ret[1] = Len(Matched(b))
            /\ ~dry_run => CallKeys(calls[b]) = Matched(b)

C5_Witness ==
    \E b \in DOMAIN task :
        /\ CleanReturn(b)
        /\ Len(calls[b]) >= 2
        /\ task[b].ret[1] > DeleteBatchLimit
        /\ task[b].ret[2] = task[b].ret[1] - Len(calls[b])

\* C6 as stated: with an empty bucket list or a non-positive concurrency
\* limit the run ends in an error before any task is submitted; it never
\* reaches the collection loop or the summary.
C6_InvalidConfigFailsFast ==
    (Len(buckets) = 0 \/ max_workers <= 0) =>
        /\ pc \in {"main", "cancelled", "error"}
        /\ task = << >>

Started(b) == task[b].st # "queued"

\* C7: at most max_workers tasks run at a time; a queued task starts only
\* when a worker is idle, after all but max_workers - 1 of the tasks
\* submitted before it have finished; every submitted task is eventually
\* started.
C7_BoundedPool ==
    /\ [](Cardinality(Running) <= max_workers)
    /\ [][\A b \in 1..MaxBuckets :
            (b \in DOMAIN task /\ task[b].st = "queued" /\ task'[b].st # "queued") =>
                /\ Cardinality(Running) < max_workers
                /\ Cardinality(Finished) >= b - max_workers
                /\ \A a \in 1..(b - 1) : task[a].st # "queued"]_vars
    /\ (pc = "collect") ~> (\A b \in DOMAIN task : Started(b))

C7_Witness ==
    \E b \in DOMAIN task :
        /\ b > max_workers
        /\ task[b].st = "running"
        /\ Cardinality(Running) = max_workers
        /\ Finished # {}

AllFailed == \A b \in DOMAIN task : task[b].err # "none"

\* C8: a started run always ends with the summary, whatever tasks fail and
\* however; when every bucket fails the summary is (0, 0).
C8_SummaryAlwaysProduced ==
    /\ (pc = "collect") ~> (pc = "done")
    /\ [](pc # "error")
    /\ []((pc = "done" /\ AllFailed) => (total_found = 0 /\ total_deleted = 0))

C8_Witness ==
    /\ pc = "done"
    /\ Len(buckets) >= 2
    /\ AllFailed
    /\ \E a, b \in DOMAIN task : task[a].st = "raised" /\ task[b].st = "returned"
    /\ total_found = 0 /\ total_deleted = 0

\* C9: every delete call carries between 1 and the limit keys, all of them
\* keys of one listing page of the call's bucket.
C9_BatchWithinLimit ==
    \A b \in DOMAIN calls :
        \A c \in 1..Len(calls[b]) :
            /\ Len(calls[b][c].keys) >= 1
            /\ Len(calls[b][c].keys) <= DeleteBatchLimit
            /\ calls[b][c].page \in 1..Len(PagesOf(b))
            /\ \A j \in 1..Len(calls[b][c].keys) :
                  \E m \in 1..Len(PagesOf(b)[calls[b][c].page]) :
                      PagesOf(b)[calls[b][c].page][m] = calls[b][c].keys[j]

C9_Witness ==
    \E b \in DOMAIN calls :
        \E c \in 1..Len(calls[b]) :
            /\ c + 1 <= Len(calls[b])
            /\ calls[b][c].page = calls[b][c + 1].page
            /\ Len(calls[b][c].keys) = DeleteBatchLimit
            /\ Len(ObjectsToDelete(PagesOf(b)[calls[b][c].page])) > DeleteBatchLimit

\* C10: the reported total_deleted never exceeds the number of keys the
\* service confirmed as deleted, and no bucket reports more deleted than
\* found.
C10_DeletedNeverOverstated ==
    /\ pc \in {"collect", "done"} =>
          total_deleted <= SumOver(confirmed, Len(buckets))
    /\ \A b \in DOMAIN task :
          task[b].st = "returned" =>
              /\ task[b].ret[2] <= task[b].ret[1]
              /\ task[b].ret[2] <= confirmed[b]

C10_Witness ==
    /\ pc = "done"
    /\ total_deleted > 0
    /\ total_deleted < SumOver(confirmed, Len(buckets))
    /\ \E b \in DOMAIN task : task[b].err \in StorageErrors /\ confirmed[b] > 0

====
